---- MODULE Spec2Model ----
(***************************************************************************)
(* State-machine model of telegram-d2-bot (src/bot.go, src/config.go and   *)
(* the entry point src/unnamed/part_001).                                  *)
(*                                                                         *)
(* Strings that the code only compares (usernames, tokens, log formats)    *)
(* are TLA+ strings.  Strings that the code builds or inspects (message    *)
(* bodies, file names, reply texts, error messages) are sequences of       *)
(* segments, so that fmt.Sprintf is concatenation and strings.HasSuffix is *)
(* a real suffix test.  Optional (pointer) values are records              *)
(* [has, val].  The external collaborators (Telegram transport, d2         *)
(* pipeline, Playwright, Infisical, file system) are nondeterministic:     *)
(* every operator that calls one returns the SET of its possible           *)
(* outcomes.                                                               *)
(***************************************************************************)
EXTENDS Integers, Sequences, FiniteSets, TLC

VARIABLES pc, args, confFilepath, startup, conf, client, interval, handlers,
          printed, update, trace, playwrights, call, frames, handles

\* the variables of the process; call is the renderDiagram call that the
\* second specification takes step by step
procVars ==
    <<pc, args, confFilepath, startup, conf, client, interval, handlers,
      printed, update, trace, playwrights>>

\* frames are the handler calls in flight at the same time and handles the
\* Playwrights that are running; the third specification steps them
vars == <<procVars, call, frames, handles>>

-----------------------------------------------------------------------------
(* Bounds of the model *)

MaxAllowed == 2     \* longest allowed_ids list
MaxChat == 2        \* chat ids are 1..MaxChat
MaxMessage == 1     \* message ids are 1..MaxMessage
MaxInterval == 1    \* monitor_interval ranges over -MaxInterval..MaxInterval
MaxDispatch == 2    \* handler calls in flight at the same time

(* Program constants *)

defaultPollingInterval == 5

commandStart == <<"/start">>
commandHelp == <<"/help">>
commandPrivacy == <<"/privacy">>

messageHelp ==
    <<"This is a [Telegram Bot](https://github\\.com/meinside/telegram\\-d2\\-bot) which replies to your messages with [D2](https://github\\.com/terrastruct/d2)\\-generated \\.svg files in \\.png format\\.\n">>
messagePrivacy ==
    <<"[Privacy Policy](https://github\\.com/meinside/telegram\\-d2\\-bot/raw/master/PRIVACY\\.md)">>
messageNotSupported == <<"This type of message is not supported (yet).">>

-----------------------------------------------------------------------------
(* Input domains *)

Names == {"alice", "Alice"}

Seqs(S, n) == UNION {[1..k -> S] : k \in 0..n}

AllowedLists == Seqs(Names, MaxAllowed)

NoName == [has |-> FALSE, val |-> ""]
Usernames == {NoName} \cup {[has |-> TRUE, val |-> n] : n \in Names}

NoFrom == [has |-> FALSE, username |-> NoName]
Senders == {NoFrom} \cup {[has |-> TRUE, username |-> n] : n \in Usernames}

NoText == [has |-> FALSE, val |-> <<>>]
Texts == {<<"x", " ", "-", ">", " ", "y">>, <<"?">>}

NoFileName == [has |-> FALSE, val |-> <<>>]
FileNames == {<<"a", ".", "d", "2">>, <<"a", ".", "d">>, <<"d", "2">>}
NoDocument == [has |-> FALSE, FileName |-> NoFileName, FileID |-> ""]
Documents ==
    {[has |-> TRUE, FileName |-> f, FileID |-> "file1"] :
        f \in {NoFileName} \cup {[has |-> TRUE, val |-> n] : n \in FileNames}}

Contents == {<<"a", " ", "-", ">", " ", "b">>, <<"!">>}
PngBytes == {<<255, 216>>, <<137, 80>>}

Commands == {commandStart, commandHelp, commandPrivacy, <<"/foo">>}

NoCmd == <<>>

\* kind: which callback the library hands the update to
NoUpdate ==
    [kind |-> "none", edited |-> FALSE, hasMessage |-> FALSE, from |-> NoFrom,
     chatID |-> 0, messageID |-> 0, text |-> NoText, document |-> NoDocument,
     cmd |-> NoCmd]

MessageUpdates ==
    {[kind |-> "message", edited |-> e, hasMessage |-> TRUE, from |-> f,
      chatID |-> c, messageID |-> m, text |-> p[1], document |-> p[2],
      cmd |-> NoCmd] :
        e \in BOOLEAN, f \in Senders, c \in 1..MaxChat, m \in 1..MaxMessage,
        p \in ({[has |-> TRUE, val |-> t] : t \in Texts} \X {NoDocument})
              \cup ({NoText} \X (Documents \cup {NoDocument}))}

CommandUpdates ==
    {[kind |-> "command", edited |-> FALSE, hasMessage |-> TRUE, from |-> f,
      chatID |-> c, messageID |-> m, text |-> [has |-> TRUE, val |-> k],
      document |-> NoDocument, cmd |-> k] :
        f \in Senders, c \in 1..MaxChat, m \in 1..MaxMessage, k \in Commands}

\* updates no registered handler takes: a message-less update (e.g. a
\* callback query) or one that still carries a message
OtherUpdates ==
    {[kind |-> "other", edited |-> FALSE, hasMessage |-> h, from |-> f,
      chatID |-> IF h THEN c ELSE 0, messageID |-> IF h THEN m ELSE 0,
      text |-> NoText, document |-> NoDocument, cmd |-> NoCmd] :
        h \in BOOLEAN, f \in Senders, c \in 1..MaxChat, m \in 1..MaxMessage}

-----------------------------------------------------------------------------
(* config.go *)

NoConf ==
    [AllowedIDs |-> <<>>, MonitorInterval |-> 0, IsVerbose |-> FALSE,
     BotToken |-> "", Infisical |-> FALSE]

\* what json.Unmarshal can produce from a config file
FileConfs ==
    {[AllowedIDs |-> a, MonitorInterval |-> i, IsVerbose |-> v,
      BotToken |-> t[1], Infisical |-> t[2]] :
        a \in AllowedLists, i \in (-MaxInterval)..MaxInterval, v \in BOOLEAN,
        t \in {<<"tok", FALSE>>, <<"", FALSE>>, <<"", TRUE>>}}

SecretValues == {"", "tok"}

\* loadConfig: the set of (conf, err) results over every file that can be
\* at filepath and every behaviour of the secret store
loadConfig(filepath) ==
    {[conf |-> NoConf, err |-> e] : e \in {"read", "parse", "unmarshal"}}
    \cup UNION {
        IF c.BotToken = "" /\ c.Infisical
        THEN {[conf |-> NoConf, err |-> e] : e \in {"auth", "retrieve"}}
             \cup {[conf |-> [c EXCEPT !.BotToken = s], err |-> ""] :
                      s \in SecretValues}
        ELSE {[conf |-> c, err |-> ""]}
        : c \in FileConfs}

-----------------------------------------------------------------------------
(* Events of the per-update trace *)

CheckEv(b) == [ev |-> "check", ok |-> b]
LogEv(what) == [ev |-> "log", what |-> what]
PanicEv == [ev |-> "panic"]
RenderEv(r) == [ev |-> "render", r |-> r]

SendChatAction(chatID, ok) ==
    [ev |-> "call", op |-> "sendChatAction", chatID |-> chatID, ok |-> ok]
SendDocument(chatID, bs, replyTo, ok) ==
    [ev |-> "call", op |-> "sendDocument", chatID |-> chatID, bytes |-> bs,
     replyTo |-> replyTo, ok |-> ok]
SendMessage(chatID, text, replyTo, ok) ==
    [ev |-> "call", op |-> "sendMessage", chatID |-> chatID, text |-> text,
     replyTo |-> replyTo, ok |-> ok]
SetMessageReaction(chatID, messageID, ok) ==
    [ev |-> "call", op |-> "setMessageReaction", chatID |-> chatID,
     messageID |-> messageID, ok |-> ok]
GetFile(fileID, ok) ==
    [ev |-> "call", op |-> "getFile", fileID |-> fileID, ok |-> ok]
\* getBytesFromURL on the URL of file fileID: ok is err == nil and content
\* is the body that was read, whatever the status of the response (the
\* code never looks at it)
HttpGet(fileID, ok, content) ==
    [ev |-> "call", op |-> "httpGet", fileID |-> fileID, ok |-> ok,
     content |-> content]

NoReply == 0

-----------------------------------------------------------------------------
(* bot.go: renderDiagram *)

NoErr == <<>>
NoBytes == <<>>

Stages == <<"compile", "ruler", "dimensions", "layout", "export", "svg">>
CtxStages == {"layout", "export"}     \* the stages handed ctxRender

StageErr(name) == <<name, " failed">>
DeadlineErr == <<"context deadline exceeded">>
CleanupErr == <<"cleanup", " failed">>

\* the errors a stage can return
StageErrors(name) ==
    {StageErr(name)} \cup (IF name \in CtxStages THEN {DeadlineErr} ELSE {})

RenderResult(str, run, bs, err, acquired, released) ==
    [src |-> str, stages |-> run, bs |-> bs, err |-> err,
     acquired |-> acquired, released |-> released]

\* mutant: the error of Cleanup takes the place of an earlier error
Deferred_Overwrites(err, e) == IF e # NoErr THEN e ELSE err

\* the deferred func of lines 417-422, run with Cleanup returning e
Deferred(err, e) == IF err = NoErr THEN e ELSE err

\* mutant: Cleanup is called on the success path only
Rasterize_ReleaseOnSuccess(str, run) ==
    LET init == Append(run, "initPlaywright")
        conv == Append(init, "convertSVG")
        done == Append(conv, "cleanup")
    IN  {RenderResult(str, init, NoBytes, StageErr("initPlaywright"), 0, 0)}
        \cup {RenderResult(str, conv, NoBytes, StageErr("convertSVG"), 1, 0)}
        \cup {RenderResult(str, done, png, Deferred(NoErr, e), 1, 1) :
                 png \in PngBytes, e \in {NoErr, CleanupErr}}

\* lines 415-427: InitPlaywright, ConvertSVG, and the deferred Cleanup that
\* runs when the function returns after InitPlaywright succeeded.  acquired
\* and released count the InitPlaywright calls that returned a Playwright
\* and the Cleanup calls.
Rasterize(str, run) ==
    LET init == Append(run, "initPlaywright")
        conv == Append(init, "convertSVG")
        done == Append(conv, "cleanup")
    IN  {RenderResult(str, init, NoBytes, StageErr("initPlaywright"), 0, 0)}
        \cup {RenderResult(str, done, NoBytes,
                           Deferred(StageErr("convertSVG"), e), 1, 1) :
                 e \in {NoErr, CleanupErr}}
        \cup {RenderResult(str, done, png, Deferred(NoErr, e), 1, 1) :
                 png \in PngBytes, e \in {NoErr, CleanupErr}}

\* lines 382-414 and 428-434: stage s is entered only when all before it
\* returned no error; a failing stage falls through to `return nil, err`
RECURSIVE RunStages(_, _, _)
RunStages(str, s, run) ==
    IF s > Len(Stages)
    THEN Rasterize(str, run)
    ELSE LET now == Append(run, Stages[s])
         IN  {RenderResult(str, now, NoBytes, e, 0, 0) :
                 e \in StageErrors(Stages[s])}
             \cup RunStages(str, s + 1, now)

renderDiagram(c, str) == RunStages(str, 1, <<>>)

\* renderDiagram taken one step at a time.  Steps are the calls of lines
\* 382-424 in the order of the nested ifs; `at` is the step that runs next
\* or is running (`inflight`), `expired` says that the deadline of
\* ctxRender (line 379) has passed and `expiredIn` in which step it passed
\* ("between": while no step was running).
Steps == Stages \o <<"initPlaywright", "convertSVG">>

NewCall(str) ==
    [src |-> str, at |-> 1, inflight |-> FALSE, expired |-> FALSE,
     expiredIn |-> "none", stages |-> <<>>, bs |-> NoBytes, err |-> NoErr,
     pw |-> FALSE, returned |-> FALSE]

NoCall == [NewCall(<<>>) EXCEPT !.at = 0, !.returned = TRUE]

\* what a step that is running can return.  Only the steps that were
\* handed ctxRender can see that its deadline has passed, and one that is
\* about to finish may still finish.
StepOutcomes(name, expired) ==
    {NoErr, StageErr(name)}
    \cup (IF name \in CtxStages /\ expired THEN {DeadlineErr} ELSE {})

-----------------------------------------------------------------------------
(* bot.go: allowance filter *)

Contains(s, v) == \E i \in 1..Len(s) : s[i] = v

\* mutant: only the first entry of the list is compared
isUsernameAllowed_FirstOnly(c, username) ==
    IF ~username.has THEN FALSE
    ELSE Len(c.AllowedIDs) > 0 /\ c.AllowedIDs[1] = username.val

isUsernameAllowed(c, username) ==
    IF ~username.has THEN FALSE ELSE Contains(c.AllowedIDs, username.val)

isUpdateAllowed(c, u) ==
    IF u.from.has THEN isUsernameAllowed(c, u.from.username) ELSE FALSE

-----------------------------------------------------------------------------
(* bot.go: replies.  Every operator returns the set of traces it can     *)
(* produce.                                                              *)

Prefix(evs, S) == {evs \o t : t \in S}

\* mutant: the description of a not-ok response is missing and the log
\* line that dereferences it faults
replyError_Faults(chatID, messageID, text) ==
    {<<SendMessage(chatID, text, messageID, TRUE)>>,
     <<SendMessage(chatID, text, messageID, FALSE), PanicEv>>}

\* a not-ok response of the transport carries its description, so the
\* log lines that dereference it do not fault
replyError(chatID, messageID, text) ==
    {<<SendMessage(chatID, text, messageID, TRUE)>>,
     <<SendMessage(chatID, text, messageID, FALSE),
       LogEv("failed to send rendered image")>>}

\* mutant: a failed send-document falls back to the error text
AfterRender_ErrorAfterFailedSend(chatID, messageID, r) ==
    IF r.err = NoErr
    THEN Prefix(<<SendDocument(chatID, r.bs, messageID, FALSE),
                  LogEv("failed to send rendered image")>>,
                replyError(chatID, messageID,
                           <<"Failed to render message: ">>))
         \cup {<<SendDocument(chatID, r.bs, messageID, TRUE),
                 SetMessageReaction(chatID, messageID, TRUE)>>,
               <<SendDocument(chatID, r.bs, messageID, TRUE),
                 SetMessageReaction(chatID, messageID, FALSE),
                 LogEv("failed to set reaction")>>}
    ELSE Prefix(<<LogEv("failed to render message")>>,
                replyError(chatID, messageID,
                           <<"Failed to render message: ">> \o r.err))

\* mutant: a failed reaction is answered with the error text
AfterRender_ErrorAfterFailedReaction(chatID, messageID, r) ==
    IF r.err = NoErr
    THEN {<<SendDocument(chatID, r.bs, messageID, FALSE),
            LogEv("failed to send rendered image")>>,
          <<SendDocument(chatID, r.bs, messageID, TRUE),
            SetMessageReaction(chatID, messageID, TRUE)>>}
         \cup Prefix(<<SendDocument(chatID, r.bs, messageID, TRUE),
                       SetMessageReaction(chatID, messageID, FALSE),
                       LogEv("failed to set reaction")>>,
                     replyError(chatID, messageID,
                                <<"Failed to render message: ">>))
    ELSE Prefix(<<LogEv("failed to render message")>>,
                replyError(chatID, messageID,
                           <<"Failed to render message: ">> \o r.err))

\* mutant: success is judged by the returned bytes, not by the error
AfterRender_ChecksBytes(chatID, messageID, r) ==
    IF r.bs # NoBytes
    THEN {<<SendDocument(chatID, r.bs, messageID, FALSE),
            LogEv("failed to send rendered image")>>,
          <<SendDocument(chatID, r.bs, messageID, TRUE),
            SetMessageReaction(chatID, messageID, TRUE)>>,
          <<SendDocument(chatID, r.bs, messageID, TRUE),
            SetMessageReaction(chatID, messageID, FALSE),
            LogEv("failed to set reaction")>>}
    ELSE Prefix(<<LogEv("failed to render message")>>,
                replyError(chatID, messageID,
                           <<"Failed to render message: ">> \o r.err))

AfterRender(chatID, messageID, r) ==
    IF r.err = NoErr
    THEN {<<SendDocument(chatID, r.bs, messageID, FALSE),
            LogEv("failed to send rendered image")>>,
          <<SendDocument(chatID, r.bs, messageID, TRUE),
            SetMessageReaction(chatID, messageID, TRUE)>>,
          <<SendDocument(chatID, r.bs, messageID, TRUE),
            SetMessageReaction(chatID, messageID, FALSE),
            LogEv("failed to set reaction")>>}
    ELSE Prefix(<<LogEv("failed to render message")>>,
                replyError(chatID, messageID,
                           <<"Failed to render message: ">> \o r.err))

\* mutant: nothing is rendered when the typing indicator failed
replyRendered_TypingGates(c, chatID, messageID, text) ==
    {<<SendChatAction(chatID, FALSE)>>}
    \cup UNION {Prefix(<<SendChatAction(chatID, TRUE), RenderEv(r)>>,
                       AfterRender(chatID, messageID, r)) :
                   r \in renderDiagram(c, text)}

replyRendered(c, chatID, messageID, text) ==
    \* the result of SendChatAction is discarded (line 472)
    UNION {Prefix(<<SendChatAction(chatID, typing), RenderEv(r)>>,
                  AfterRender(chatID, messageID, r)) :
              typing \in BOOLEAN, r \in renderDiagram(c, text)}

-----------------------------------------------------------------------------
(* bot.go: handlers *)

\* mutant: a denial is logged whatever the config says
Denied_AlwaysLogs(c, what) == {<<LogEv(what)>>}

Denied(c, what) == IF c.IsVerbose THEN {<<LogEv(what)>>} ELSE {<<>>}

\* mutant: the allowance check does not gate the render
handleMessage_Ungated(c, message) ==
    IF ~message.from.has
    THEN {<<PanicEv>>}
    ELSE Prefix(<<CheckEv(isUsernameAllowed(c, message.from.username))>>,
                replyRendered(c, message.chatID, message.messageID,
                              message.text.val))

\* mutant: chat id and message id change places
handleMessage_SwappedIDs(c, message) ==
    IF ~message.from.has
    THEN {<<PanicEv>>}
    ELSE LET allowed == isUsernameAllowed(c, message.from.username)
         IN  Prefix(<<CheckEv(allowed)>>,
                    IF allowed
                    THEN replyRendered(c, message.messageID, message.chatID,
                                       message.text.val)
                    ELSE Denied(c, "message not allowed"))

handleMessage(c, message) ==
    IF ~message.from.has
    THEN {<<PanicEv>>}      \* message.From.Username with From == nil
    ELSE LET allowed == isUsernameAllowed(c, message.from.username)
         IN  Prefix(<<CheckEv(allowed)>>,
                    IF allowed
                    THEN replyRendered(c, message.chatID, message.messageID,
                                       message.text.val)
                    ELSE Denied(c, "message not allowed"))

HasSuffix(s, suffix) ==
    /\ Len(s) >= Len(suffix)
    /\ SubSeq(s, Len(s) - Len(suffix) + 1, Len(s)) = suffix

\* mutant: the extension is compared without its dot
d2Suffix_NoDot == <<"d", "2">>

d2Suffix == <<".", "d", "2">>

\* mutant: a file that could not be fetched is answered with an error text
FetchAndRender_RepliesOnFailure(c, document, chatID, messageID) ==
    Prefix(<<GetFile(document.FileID, FALSE),
             LogEv("failed to fetch file with id")>>,
           replyError(chatID, messageID, <<"Failed to fetch file">>))
    \cup Prefix(<<GetFile(document.FileID, TRUE),
                  HttpGet(document.FileID, FALSE, NoBytes),
                  LogEv("failed to fetch")>>,
                replyError(chatID, messageID, <<"Failed to fetch file">>))
    \cup UNION {Prefix(<<GetFile(document.FileID, TRUE),
                        HttpGet(document.FileID, TRUE, content)>>,
                       replyRendered(c, chatID, messageID, content)) :
                   content \in Contents}

\* lines 576-590: GetFile, getBytesFromURL, then replyRendered on
\* string(content), which has the bytes of content
FetchAndRender(c, document, chatID, messageID) ==
    {<<GetFile(document.FileID, FALSE), LogEv("failed to fetch file with id")>>,
     <<GetFile(document.FileID, TRUE),
       HttpGet(document.FileID, FALSE, NoBytes),
       LogEv("failed to fetch")>>}
    \cup UNION {Prefix(<<GetFile(document.FileID, TRUE),
                        HttpGet(document.FileID, TRUE, content)>>,
                       replyRendered(c, chatID, messageID, content)) :
                   content \in Contents}

\* mutant: a document without a name is rejected like one with a wrong name
handleDocument_RejectsNameless(c, message) ==
    IF ~message.from.has
    THEN {<<PanicEv>>}
    ELSE LET allowed == isUsernameAllowed(c, message.from.username)
             document == message.document
             chatID == message.chatID
             messageID == message.messageID
         IN  Prefix(<<CheckEv(allowed)>>,
                IF allowed
                THEN IF document.FileName.has
                        /\ HasSuffix(document.FileName.val, d2Suffix)
                     THEN FetchAndRender(c, document, chatID, messageID)
                     ELSE replyError(chatID, messageID,
                              <<"'">> \o document.FileName.val
                              \o <<"' does not seem to be a .d2 file.">>)
                ELSE Denied(c, "document not allowed"))

\* mutant: the file is looked up before the sender is checked
handleDocument_FetchFirst(c, message) ==
    IF ~message.from.has
    THEN {<<PanicEv>>}
    ELSE LET allowed == isUsernameAllowed(c, message.from.username)
             document == message.document
         IN  UNION {Prefix(<<GetFile(document.FileID, ok), CheckEv(allowed)>>,
                           IF allowed /\ ok
                           THEN UNION {Prefix(<<HttpGet(document.FileID, TRUE,
                                                        content)>>,
                                    replyRendered(c, message.chatID,
                                                  message.messageID, content)) :
                                    content \in Contents}
                           ELSE Denied(c, "document not allowed")) :
                      ok \in BOOLEAN}

handleDocument(c, message) ==
    IF ~message.from.has
    THEN {<<PanicEv>>}      \* message.From.Username with From == nil
    ELSE LET allowed == isUsernameAllowed(c, message.from.username)
             document == message.document
             chatID == message.chatID
             messageID == message.messageID
         IN  Prefix(<<CheckEv(allowed)>>,
                IF allowed
                THEN IF document.FileName.has
                        /\ HasSuffix(document.FileName.val, d2Suffix)
                     THEN FetchAndRender(c, document, chatID, messageID)
                     ELSE IF document.FileName.has
                          THEN replyError(chatID, messageID,
                                   <<"'">> \o document.FileName.val
                                   \o <<"' does not seem to be a .d2 file.">>)
                          ELSE {<<>>}
                ELSE Denied(c, "document not allowed"))

handleNoSupport(c, u) ==
    LET allowed == isUpdateAllowed(c, u)
    IN  Prefix(<<CheckEv(allowed)>>,
            IF allowed
            THEN IF u.hasMessage
                 THEN replyError(u.chatID, u.messageID, messageNotSupported)
                 ELSE {<<LogEv("no usabale message")>>}
            ELSE Denied(c, "update not allowed"))

\* the SendMessage of the three command handlers: no reply parameters
SendStatic(chatID, text, failure) ==
    {<<SendMessage(chatID, text, NoReply, TRUE)>>,
     <<SendMessage(chatID, text, NoReply, FALSE), LogEv(failure)>>}

\* mutant: the help text is sent without the allowance check
handleHelpCommand_Ungated(c, u) ==
    IF u.hasMessage
    THEN SendStatic(u.chatID, messageHelp, "failed to send help message")
    ELSE {<<>>}

handleHelpCommand(c, u) ==
    LET allowed == isUpdateAllowed(c, u)
    IN  Prefix(<<CheckEv(allowed)>>,
            IF allowed
            THEN IF u.hasMessage
                 THEN SendStatic(u.chatID, messageHelp,
                                 "failed to send help message")
                 ELSE {<<>>}
            ELSE Denied(c, "update not allowed"))

\* mutant: /privacy is gated like /help
handlePrivacyCommand_Gated(u) ==
    LET allowed == isUpdateAllowed(conf, u)
    IN  Prefix(<<CheckEv(allowed)>>,
            IF allowed /\ u.hasMessage
            THEN SendStatic(u.chatID, messagePrivacy,
                            "failed to send privacy policy")
            ELSE {<<>>})

handlePrivacyCommand(u) ==
    IF u.hasMessage
    THEN SendStatic(u.chatID, messagePrivacy, "failed to send privacy policy")
    ELSE {<<>>}

\* mutant: the notice is sent without the allowance check
handleNoMatchingCommand_Ungated(c, u, cmd) ==
    IF u.hasMessage
    THEN SendStatic(u.chatID, <<"Not a supported command: ">> \o cmd,
                    "failed to send no-matching-command message")
    ELSE {<<>>}

handleNoMatchingCommand(c, u, cmd) ==
    LET allowed == isUpdateAllowed(c, u)
    IN  Prefix(<<CheckEv(allowed)>>,
            IF allowed
            THEN IF u.hasMessage
                 THEN SendStatic(u.chatID,
                                 <<"Not a supported command: ">> \o cmd,
                                 "failed to send no-matching-command message")
                 ELSE {<<>>}
            ELSE Denied(c, "update not allowed"))

\* mutant: a message with neither text nor document goes to handleNoSupport
messageHandler_ElseNoSupport(c, message) ==
    IF message.text.has
    THEN handleMessage(c, message)
    ELSE IF message.document.has
         THEN handleDocument(c, message)
         ELSE handleNoSupport(c, message)

\* mutant: an edited message is not handled again
messageHandler_SkipEdited(c, message) ==
    IF message.edited
    THEN {<<>>}
    ELSE IF message.text.has
         THEN handleMessage(c, message)
         ELSE IF message.document.has
              THEN handleDocument(c, message)
              ELSE {<<>>}

\* the closure given to SetMessageHandler
messageHandler(c, message) ==
    IF message.text.has
    THEN handleMessage(c, message)
    ELSE IF message.document.has
         THEN handleDocument(c, message)
         ELSE {<<>>}

-----------------------------------------------------------------------------
(* The process *)

NoClient == [created |-> FALSE, token |-> ""]

\* the handler calls that can be in flight at the same time
Dispatches == 1..MaxDispatch

\* the frame of one handler call: the update it was given, where it is
\* (at), what it did so far (out) and its locals bs, err and pw
NoFrame ==
    [at |-> "idle", u |-> NoUpdate, out |-> <<>>, bs |-> NoBytes,
     err |-> NoErr, pw |-> 0]

\* os.Args: the program name, then the command-line arguments
ArgVectors ==
    {<<"telegram-d2-bot">>, <<"telegram-d2-bot", "config.json", "extra">>}

messageUsage(progName) == <<"Usage:\n\n\t$ ", progName, " [CONFIG_FILE_PATH]\n">>

\* one step of the start-up and whether it succeeded
Step(name, ok) == [step |-> name, ok |-> ok]

Init ==
    /\ pc = "start"
    /\ args \in ArgVectors
    /\ confFilepath = ""
    /\ startup = <<>>
    /\ conf = NoConf
    /\ client = NoClient
    /\ interval = 0
    /\ handlers = {}
    /\ printed = <<>>           \* what was written to standard output
    /\ playwrights = 0          \* Playwrights initialised and not cleaned up
    /\ call = NoCall
    /\ frames = [d \in Dispatches |-> NoFrame]
    /\ handles = {}
    /\ update = NoUpdate
    /\ trace = <<>>

\* mutant: the last argument is taken for the config file path
Main_LastArg ==
    /\ pc = "start"
    /\ \E installed \in BOOLEAN :
          /\ startup' = <<Step("install", installed)>>
          /\ IF ~installed
             THEN pc' = "exited" /\ UNCHANGED <<printed, confFilepath>>
             ELSE IF Len(args) > 1
                  THEN /\ pc' = "loadConfig"
                       /\ confFilepath' = args[Len(args)]
                       /\ UNCHANGED printed
                  ELSE /\ pc' = "exited"
                       /\ printed' = messageUsage(args[1])
                       /\ UNCHANGED confFilepath
    /\ UNCHANGED <<args, conf, client, interval, handlers, update, trace,
                   playwrights, call, frames,
                   handles>>

\* main: playwright.Install, then runBot(os.Args[1]) or printUsage.
\* pc = "exited" is a return from main (exit status 0), pc = "panicked" an
\* unrecovered panic.
Main ==
    /\ pc = "start"
    /\ \E installed \in BOOLEAN :
          /\ startup' = <<Step("install", installed)>>
          /\ IF ~installed
             THEN pc' = "exited" /\ UNCHANGED <<printed, confFilepath>>
             ELSE IF Len(args) > 1
                  THEN /\ pc' = "loadConfig"
                       /\ confFilepath' = args[2]
                       /\ UNCHANGED printed
                  ELSE /\ pc' = "exited"
                       /\ printed' = messageUsage(args[1])
                       /\ UNCHANGED confFilepath
    /\ UNCHANGED <<args, conf, client, interval, handlers, update, trace,
                   playwrights, call, frames,
                   handles>>

\* runBot, lines 753-757: loadConfig, panic on error, else tg.NewClient
LoadConfig ==
    /\ pc = "loadConfig"
    /\ \E r \in loadConfig(confFilepath) :
          /\ startup' = Append(startup, Step("loadConfig", r.err = ""))
          /\ IF r.err # ""
             THEN /\ pc' = "panicked"
                  /\ UNCHANGED <<conf, client>>
             ELSE /\ pc' = "getMe"
                  /\ conf' = r.conf
                  /\ client' = [created |-> TRUE, token |-> r.conf.BotToken]
    /\ UNCHANGED <<args, confFilepath, interval, handlers, printed, update,
                   trace, playwrights, call, frames,
                   handles>>

\* mutant: the answer of GetMe is not looked at
GetMe_IgnoresResult ==
    /\ pc = "getMe"
    /\ \E ok \in (IF client.token = "" THEN {FALSE} ELSE BOOLEAN) :
          /\ startup' = Append(startup, Step("getMe", ok))
          /\ pc' = "deleteWebhook"
    /\ UNCHANGED <<args, confFilepath, conf, client, interval, handlers,
                   printed, update, trace, playwrights, call, frames,
                   handles>>

\* runBot, lines 762 and 834-836.  The Bot API answers a request made
\* with an empty token not-ok.
GetMe ==
    /\ pc = "getMe"
    /\ \E ok \in (IF client.token = "" THEN {FALSE} ELSE BOOLEAN) :
          /\ startup' = Append(startup, Step("getMe", ok))
          /\ pc' = IF ok THEN "deleteWebhook" ELSE "exited"
    /\ UNCHANGED <<args, confFilepath, conf, client, interval, handlers,
                   printed, update, trace, playwrights, call, frames,
                   handles>>

\* mutant: 0 is taken for a valid interval
ResolveInterval_Strict(c) ==
    IF c.MonitorInterval < 0 THEN defaultPollingInterval
    ELSE c.MonitorInterval

ResolveInterval(c) ==
    IF c.MonitorInterval <= 0 THEN defaultPollingInterval
    ELSE c.MonitorInterval

Registered ==
    {"message", "command:/start", "command:/help", "command:/privacy",
     "noMatchingCommand"}

\* runBot, lines 766-830: DeleteWebhook, then the interval, the handlers
\* and StartPollingUpdates
DeleteWebhook ==
    /\ pc = "deleteWebhook"
    /\ \E ok \in BOOLEAN :
          /\ startup' = Append(startup, Step("deleteWebhook", ok))
          /\ IF ok
             THEN /\ pc' = "polling"
                  /\ interval' = ResolveInterval(conf)
                  /\ handlers' = Registered
             ELSE /\ pc' = "exited"
                  /\ UNCHANGED <<interval, handlers>>
    /\ UNCHANGED <<args, confFilepath, conf, client, printed, update, trace,
                   playwrights, call, frames,
                   handles>>

\* the Playwrights that the renders of trace t initialised and did not
\* clean up
RECURSIVE Unreleased(_)
Unreleased(t) ==
    IF t = <<>> THEN 0
    ELSE (IF Head(t).ev = "render"
          THEN Head(t).r.acquired - Head(t).r.released
          ELSE 0) + Unreleased(Tail(t))

\* a handler ran on update u and left trace t; a panic that nothing
\* recovers ends the process
Dispatched(u, t) ==
    /\ update' = u
    /\ trace' = t
    /\ playwrights' = playwrights + Unreleased(t)
    /\ IF t # <<>> /\ t[Len(t)].ev = "panic"
       THEN pc' \in {"crashed", "handled"}
       ELSE pc' = "handled"
    /\ UNCHANGED <<args, confFilepath, startup, conf, client, interval,
                   handlers, printed, call, frames,
                   handles>>

MessageHandler ==
    /\ pc = "polling"
    /\ "message" \in handlers
    /\ \E u \in MessageUpdates : \E t \in messageHandler(conf, u) :
          Dispatched(u, t)

StartCommand ==
    /\ pc = "polling"
    /\ "command:/start" \in handlers
    /\ \E u \in CommandUpdates :
          /\ u.cmd = commandStart
          /\ \E t \in handleHelpCommand(conf, u) : Dispatched(u, t)

HelpCommand ==
    /\ pc = "polling"
    /\ "command:/help" \in handlers
    /\ \E u \in CommandUpdates :
          /\ u.cmd = commandHelp
          /\ \E t \in handleHelpCommand(conf, u) : Dispatched(u, t)

PrivacyCommand ==
    /\ pc = "polling"
    /\ "command:/privacy" \in handlers
    /\ \E u \in CommandUpdates :
          /\ u.cmd = commandPrivacy
          /\ \E t \in handlePrivacyCommand(u) : Dispatched(u, t)

NoMatchingCommand ==
    /\ pc = "polling"
    /\ "noMatchingCommand" \in handlers
    /\ \E u \in CommandUpdates :
          /\ u.cmd \notin {commandStart, commandHelp, commandPrivacy}
          /\ \E t \in handleNoMatchingCommand(conf, u, u.cmd) :
                Dispatched(u, t)

\* the callback given to StartPollingUpdates, with err == nil
PollingCallback ==
    /\ pc = "polling"
    /\ \E u \in OtherUpdates : \E t \in handleNoSupport(conf, u) :
          Dispatched(u, t)

\* the same callback with err != nil
PollingError ==
    /\ pc = "polling"
    /\ Dispatched(NoUpdate, <<LogEv("failed to poll updates")>>)

\* the handler returned; the loop waits for the next update
NextUpdate ==
    /\ pc = "handled"
    /\ pc' = "polling"
    /\ update' = NoUpdate
    /\ trace' = <<>>
    /\ UNCHANGED <<args, confFilepath, startup, conf, client, interval,
                   handlers, printed, playwrights, call, frames,
                   handles>>

Next ==
    \/ Main
    \/ LoadConfig
    \/ GetMe
    \/ DeleteWebhook
    \/ MessageHandler
    \/ StartCommand
    \/ HelpCommand
    \/ PrivacyCommand
    \/ NoMatchingCommand
    \/ PollingCallback
    \/ PollingError
    \/ NextUpdate

Spec == Init /\ [][Next]_vars

-----------------------------------------------------------------------------
(* renderDiagram step by step, with the deadline of ctxRender.  The       *)
(* parent context is context.Background() (runBot, line 751), so the      *)
(* deadline is the only way ctxRender ends.                               *)

\* renderDiagram is called
RenderCall ==
    /\ call.returned
    /\ \E str \in Contents : call' = NewCall(str)
    /\ UNCHANGED <<procVars, frames, handles>>

\* the next call of the nested ifs is made: the one before returned no error
EnterStep ==
    /\ ~call.returned
    /\ ~call.inflight
    /\ call.err = NoErr
    /\ call.at <= Len(Steps)
    /\ call' = [call EXCEPT !.inflight = TRUE,
                            !.stages = Append(@, Steps[call.at])]
    /\ UNCHANGED <<procVars, frames, handles>>

\* the call that is running returns
LeaveStep ==
    /\ call.inflight
    /\ \E e \in StepOutcomes(Steps[call.at], call.expired) :
       \E png \in PngBytes :
          call' = [call EXCEPT
                      !.inflight = FALSE,
                      !.err = e,
                      !.at = IF e = NoErr THEN @ + 1 ELSE @,
                      !.pw = @ \/ (Steps[call.at] = "initPlaywright"
                                      /\ e = NoErr),
                      !.bs = IF Steps[call.at] = "convertSVG" /\ e = NoErr
                             THEN png ELSE @]
    /\ UNCHANGED <<procVars, frames, handles>>

\* longRequestTimeoutSeconds have passed since line 379
Expire ==
    /\ ~call.returned
    /\ ~call.expired
    /\ call' = [call EXCEPT !.expired = TRUE,
                            !.expiredIn = IF call.inflight
                                          THEN Steps[call.at]
                                          ELSE "between"]
    /\ UNCHANGED <<procVars, frames, handles>>

\* `return bs, nil` or `return nil, err`, then the deferred funcs
Return ==
    /\ ~call.returned
    /\ ~call.inflight
    /\ call.err # NoErr \/ call.at > Len(Steps)
    /\ \E e \in {NoErr, CleanupErr} :
          call' = IF call.pw
                  THEN [call EXCEPT !.returned = TRUE,
                                    !.stages = Append(@, "cleanup"),
                                    !.err = Deferred(call.err, e),
                                    !.pw = FALSE]
                  ELSE [call EXCEPT !.returned = TRUE]
    /\ UNCHANGED <<procVars, frames, handles>>

NextRender ==
    \/ RenderCall
    \/ EnterStep
    \/ LeaveStep
    \/ Expire
    \/ Return

SpecRender == Init /\ [][NextRender]_vars

-----------------------------------------------------------------------------
(* Handler calls in flight at the same time.  bot.go starts no goroutine  *)
(* and has no package-level variable; whether the library calls the       *)
(* message handler for one update while the call for another has not      *)
(* returned is the library's choice, and here it does.  Each call works   *)
(* on its own frame: its parameters and the locals bs, err and pw of      *)
(* renderDiagram.  conf is the value the closures of runBot captured.     *)

\* the loop is polling with a config that allows "alice"
ConcurrentConfs ==
    {c \in FileConfs :
        /\ c.BotToken = "tok"
        /\ c.AllowedIDs = <<"alice">>
        /\ c.MonitorInterval = 0}

\* new text messages of a sender with a username
ConcurrentUpdates ==
    {u \in MessageUpdates :
        /\ u.text.has
        /\ u.text.val = <<"?">>
        /\ u.from.has
        /\ u.from.username.has
        /\ ~u.edited}

InitConcurrent ==
    /\ pc = "polling"
    /\ args = <<"telegram-d2-bot", "config.json", "extra">>
    /\ confFilepath = "config.json"
    /\ startup = <<Step("install", TRUE), Step("loadConfig", TRUE),
                   Step("getMe", TRUE), Step("deleteWebhook", TRUE)>>
    /\ conf \in ConcurrentConfs
    /\ client = [created |-> TRUE, token |-> conf.BotToken]
    /\ interval = ResolveInterval(conf)
    /\ handlers = Registered
    /\ printed = <<>>
    /\ playwrights = 0
    /\ call = NoCall
    /\ frames = [d \in Dispatches |-> NoFrame]
    /\ handles = {}
    /\ update = NoUpdate
    /\ trace = <<>>

\* frame d moves to `at` after doing evs, with the locals changed as in f
Advance(d, f, at, evs) ==
    /\ frames' = [frames EXCEPT ![d] = [f EXCEPT !.at = at,
                                                 !.out = @ \o evs]]
    /\ UNCHANGED <<procVars, call>>

\* the message handler is called with an update no other call has
Accept ==
    \E d \in Dispatches : \E u \in ConcurrentUpdates :
        /\ frames[d].at = "idle"
        /\ \A e \in Dispatches : frames[e].u # u
        /\ Advance(d, [frames[d] EXCEPT !.u = u], "check", <<>>)
        /\ UNCHANGED handles

\* handleMessage, lines 541-558
CheckAllowed ==
    \E d \in Dispatches :
        LET f == frames[d]
            allowed == isUsernameAllowed(conf, f.u.from.username)
        IN  /\ f.at = "check"
            /\ IF allowed
               THEN Advance(d, f, "typing", <<CheckEv(TRUE)>>)
               ELSE \E t \in Denied(conf, "message not allowed") :
                       Advance(d, f, "done", <<CheckEv(FALSE)>> \o t)
            /\ UNCHANGED handles

\* replyRendered, line 472
Typing ==
    \E d \in Dispatches : \E ok \in BOOLEAN :
        LET f == frames[d]
        IN  /\ f.at = "typing"
            /\ Advance(d, f, "stages", <<SendChatAction(f.u.chatID, ok)>>)
            /\ UNCHANGED handles

\* renderDiagram, lines 382-414: the six stages before the engine
RunSixStages ==
    \E d \in Dispatches :
        LET f == frames[d]
        IN  /\ f.at = "stages"
            /\ \/ \E r \in renderDiagram(conf, f.u.text.val) :
                      /\ "initPlaywright" \notin {r.stages[i] :
                                                    i \in DOMAIN r.stages}
                      /\ Advance(d, [f EXCEPT !.err = r.err], "failed",
                                 <<RenderEv(r)>>)
               \/ Advance(d, f, "init", <<>>)
            /\ UNCHANGED handles

\* the Playwrights that can run at the same time
Handles == 1..MaxDispatch

\* what renderDiagram returns once InitPlaywright was called
Rasterized(f, run, bs, err, n) ==
    RenderEv(RenderResult(f.u.text.val, Stages \o run, bs, err, n, n))

\* mutant: every call is given the one Playwright of a pool
InitPlaywright_Pooled ==
    \E d \in Dispatches :
        LET f == frames[d]
        IN  /\ f.at = "init"
            /\ \/ /\ Advance(d, [f EXCEPT !.err = StageErr("initPlaywright")],
                              "failed",
                              <<Rasterized(f, <<"initPlaywright">>, NoBytes,
                                           StageErr("initPlaywright"), 0)>>)
                  /\ UNCHANGED handles
               \/ /\ Advance(d, [f EXCEPT !.pw = 1], "convert", <<>>)
                  /\ handles' = handles \cup {1}

\* renderDiagram, lines 415-416: png.InitPlaywright() starts a Playwright
\* of its own for the local pw
InitPlaywright ==
    \E d \in Dispatches :
        LET f == frames[d]
        IN  /\ f.at = "init"
            /\ \/ /\ Advance(d, [f EXCEPT !.err = StageErr("initPlaywright")],
                              "failed",
                              <<Rasterized(f, <<"initPlaywright">>, NoBytes,
                                           StageErr("initPlaywright"), 0)>>)
                  /\ UNCHANGED handles
               \/ \E h \in Handles \ handles :
                      /\ Advance(d, [f EXCEPT !.pw = h], "convert", <<>>)
                      /\ handles' = handles \cup {h}

\* renderDiagram, line 424: png.ConvertSVG(pw.Page, bs)
ConvertSVG ==
    \E d \in Dispatches :
        LET f == frames[d]
        IN  /\ f.at = "convert"
            /\ f.pw \in handles
            /\ \/ \E png \in PngBytes :
                      Advance(d, [f EXCEPT !.bs = png], "cleanup", <<>>)
               \/ Advance(d, [f EXCEPT !.err = StageErr("convertSVG")],
                          "cleanup", <<>>)
            /\ UNCHANGED handles

\* renderDiagram, lines 417-422: the deferred pw.Cleanup()
Cleanup ==
    \E d \in Dispatches : \E e \in {NoErr, CleanupErr} :
        LET f == frames[d]
            err == Deferred(f.err, e)
        IN  /\ f.at = "cleanup"
            /\ handles' = handles \ {f.pw}
            /\ Advance(d, [f EXCEPT !.err = err, !.pw = 0],
                       IF err = NoErr THEN "send" ELSE "failed",
                       <<Rasterized(f, <<"initPlaywright", "convertSVG",
                                         "cleanup">>, f.bs, err, 1)>>)

\* replyRendered, lines 479-486
SendRendered ==
    \E d \in Dispatches : \E ok \in BOOLEAN :
        LET f == frames[d]
            sent == SendDocument(f.u.chatID, f.bs, f.u.messageID, ok)
        IN  /\ f.at = "send"
            /\ IF ok
               THEN Advance(d, f, "react", <<sent>>)
               ELSE Advance(d, f, "done",
                            <<sent, LogEv("failed to send rendered image")>>)
            /\ UNCHANGED handles

\* replyRendered, lines 487-498
React ==
    \E d \in Dispatches : \E ok \in BOOLEAN :
        LET f == frames[d]
            reactioned == SetMessageReaction(f.u.chatID, f.u.messageID, ok)
        IN  /\ f.at = "react"
            /\ Advance(d, f, "done",
                       IF ok THEN <<reactioned>>
                       ELSE <<reactioned, LogEv("failed to set reaction")>>)
            /\ UNCHANGED handles

\* replyRendered, lines 500-510, and replyError
ReplyFailure ==
    \E d \in Dispatches :
        LET f == frames[d]
        IN  /\ f.at = "failed"
            /\ \E t \in replyError(f.u.chatID, f.u.messageID,
                                    <<"Failed to render message: ">> \o f.err) :
                  Advance(d, f, "done",
                          <<LogEv("failed to render message")>> \o t)
            /\ UNCHANGED handles

NextConcurrent ==
    \/ Accept
    \/ CheckAllowed
    \/ Typing
    \/ RunSixStages
    \/ InitPlaywright
    \/ ConvertSVG
    \/ Cleanup
    \/ SendRendered
    \/ React
    \/ ReplyFailure

SpecConcurrent == InitConcurrent /\ [][NextConcurrent]_vars

-----------------------------------------------------------------------------
(* Vocabulary of the properties.  These read the state only; none of them *)
(* uses the operators that model the handlers.                            *)

Range(s) == {s[i] : i \in DOMAIN s}

\* the handler of `update` has run to its end (or to a panic)
Dispatch == pc \in {"handled", "crashed"} /\ update.kind # "none"

\* the sender's handle is present and a member of the configured list
Authorized ==
    /\ update.from.has
    /\ update.from.username.has
    /\ update.from.username.val \in Range(conf.AllowedIDs)

TextUpdate == update.kind = "message" /\ update.text.has
DocumentUpdate ==
    update.kind = "message" /\ ~update.text.has /\ update.document.has

CallsOf(op) ==
    {i \in DOMAIN trace : trace[i].ev = "call" /\ trace[i].op = op}
Renders == {i \in DOMAIN trace : trace[i].ev = "render"}
Checks == {i \in DOMAIN trace : trace[i].ev = "check"}

ReplyOps ==
    {"sendMessage", "sendDocument", "sendChatAction", "setMessageReaction"}
Replies ==
    {i \in DOMAIN trace : trace[i].ev = "call" /\ trace[i].op \in ReplyOps}

\* sub occurs in s as a contiguous run
Within(sub, s) ==
    \E k \in 0..(Len(s) - Len(sub)) : SubSeq(s, k + 1, k + Len(sub)) = sub

-----------------------------------------------------------------------------
(* C1 *)

-----------------------------------------------------------------------------
(* C2 *)

\* C2: an authorized text update has exactly one render attempt, and after
\* it exactly one reply attempt that is either a send-document or an
\* error text, whatever the render, the typing call, the send and the
\* reaction returned.
C2_OneRenderOneReply ==
    (Dispatch /\ TextUpdate /\ Authorized) =>
        /\ Cardinality(Renders) = 1
        /\ Cardinality(CallsOf("sendDocument") \cup CallsOf("sendMessage")) = 1
        /\ \A i \in Renders :
              \A j \in CallsOf("sendDocument") \cup CallsOf("sendMessage") :
                 i < j

C2_Witness ==
    /\ pc = "handled"
    /\ TextUpdate
    /\ Authorized
    /\ \E i \in CallsOf("sendChatAction") : ~trace[i].ok
    /\ \E i \in CallsOf("sendDocument") : ~trace[i].ok
    /\ CallsOf("sendMessage") = {}

-----------------------------------------------------------------------------
(* C3 *)

EndsInD2(name) ==
    /\ Len(name) >= 3
    /\ name[Len(name) - 2] = "."
    /\ name[Len(name) - 1] = "d"
    /\ name[Len(name)] = "2"

\* C3: an authorized document update whose file name does not end in ".d2"
\* gets exactly one text reply, which contains the file name, and neither
\* a file fetch nor a render.
C3_RejectionNamesTheFile ==
    (/\ Dispatch
     /\ DocumentUpdate
     /\ Authorized
     /\ update.document.FileName.has
     /\ ~EndsInD2(update.document.FileName.val)) =>
        /\ Cardinality(CallsOf("sendMessage")) = 1
        /\ \A i \in CallsOf("sendMessage") :
              Within(update.document.FileName.val, trace[i].text)
        /\ CallsOf("getFile") = {}
        /\ CallsOf("httpGet") = {}
        /\ Renders = {}

C3_Witness ==
    /\ pc = "handled"
    /\ DocumentUpdate
    /\ Authorized
    /\ update.document.FileName = [has |-> TRUE, val |-> <<"d", "2">>]
    /\ CallsOf("sendMessage") # {}

-----------------------------------------------------------------------------
(* C4 *)

\* C4: when a render returns an error, whatever stage it came from, an
\* error text containing that error is sent after it and no document is
\* sent for the update.
C4_FailedRenderRepliesError ==
    Dispatch =>
        \A i \in Renders :
            trace[i].r.err # NoErr =>
                /\ \E j \in CallsOf("sendMessage") :
                      i < j /\ Within(trace[i].r.err, trace[j].text)
                /\ CallsOf("sendDocument") = {}

\* the image was rasterized, the engine's release failed
C4_Witness ==
    /\ pc = "handled"
    /\ \E i \in Renders :
          /\ trace[i].r.err = CleanupErr
          /\ trace[i].r.bs # NoBytes
          /\ \E j \in CallsOf("sendMessage") : i < j

-----------------------------------------------------------------------------
(* C5 *)

\* C5: /start and /help from an authorized sender get exactly one text
\* reply, the help text; from any other sender they get no reply.
C5_HelpOnlyForAuthorized ==
    (Dispatch /\ update.cmd \in {commandStart, commandHelp}) =>
        IF Authorized
        THEN /\ Cardinality(CallsOf("sendMessage")) = 1
             /\ \A i \in CallsOf("sendMessage") :
                   /\ trace[i].text = messageHelp
                   /\ trace[i].chatID = update.chatID
             /\ Replies = CallsOf("sendMessage")
        ELSE Replies = {}

C5_Witness ==
    /\ pc = "handled"
    /\ update.cmd = commandHelp
    /\ Authorized
    /\ CallsOf("sendMessage") # {}

-----------------------------------------------------------------------------
(* C6 *)

\* C6: /privacy gets the privacy-policy text from every sender, and no
\* allowance check is evaluated for it.
C6_PrivacyUnconditional ==
    (Dispatch /\ update.cmd = commandPrivacy) =>
        /\ Cardinality(CallsOf("sendMessage")) = 1
        /\ \A i \in CallsOf("sendMessage") :
              /\ trace[i].text = messagePrivacy
              /\ trace[i].chatID = update.chatID
        /\ Checks = {}

C6_Witness ==
    /\ pc = "handled"
    /\ update.cmd = commandPrivacy
    /\ ~update.from.has
    /\ CallsOf("sendMessage") # {}

-----------------------------------------------------------------------------
(* C7 *)

\* C7: once the configuration has loaded, a non-empty bot token is
\* present, so the bot client is never created with an empty token.
C7_TokenPresentAfterLoad ==
    client.created => (client.token # "" /\ conf.BotToken # "")

-----------------------------------------------------------------------------
(* C8 *)

\* C8: the interval handed to the polling loop is 5 when monitor_interval
\* is at most 0 and is monitor_interval itself when that is positive; it
\* is always positive.
C8_IntervalResolved ==
    (pc \in {"polling", "handled", "crashed"}) =>
        /\ conf.MonitorInterval <= 0 => interval = 5
        /\ conf.MonitorInterval > 0 => interval = conf.MonitorInterval
        /\ interval > 0

C8_Witness ==
    /\ pc = "polling"
    /\ conf.MonitorInterval = 0
    /\ interval = 5

-----------------------------------------------------------------------------
(* C9 *)

\* C9: for an authorized text update the render is given the whole message
\* body, and when it succeeds the document sent carries exactly the bytes
\* it returned, to the update's chat, as a reply to the update's message.
C9_WholeBodyInExactBytesOut ==
    (Dispatch /\ TextUpdate /\ Authorized) =>
        /\ Renders # {}
        /\ \A i \in Renders :
              /\ trace[i].r.src = update.text.val
              /\ trace[i].r.err = NoErr =>
                    /\ CallsOf("sendDocument") # {}
                    /\ \A j \in CallsOf("sendDocument") :
                          /\ trace[j].bytes = trace[i].r.bs
                          /\ trace[j].chatID = update.chatID
                          /\ trace[j].replyTo = update.messageID

C9_Witness ==
    /\ pc = "handled"
    /\ TextUpdate
    /\ Authorized
    /\ update.text.val = <<"x", " ", "-", ">", " ", "y">>
    /\ update.chatID # update.messageID
    /\ \E j \in CallsOf("sendDocument") :
          trace[j].bytes = <<255, 216>> /\ trace[j].ok

-----------------------------------------------------------------------------
(* C10 *)

\* C10: the allowance check answers false for an absent username and, for
\* a present one, answers true exactly when the allowed list holds an
\* equal string, wherever and however often it occurs in the list.
C10_AllowedIffMember ==
    (Dispatch /\ update.from.has) =>
        \A i \in Checks :
            trace[i].ok =
                (/\ update.from.username.has
                 /\ \E k \in DOMAIN conf.AllowedIDs :
                       conf.AllowedIDs[k] = update.from.username.val)

\* the name is the second entry of the list, after its other-case twin
C10_Witness ==
    /\ pc = "handled"
    /\ conf.AllowedIDs = <<"Alice", "alice">>
    /\ update.from.username = [has |-> TRUE, val |-> "alice"]
    /\ \E i \in Checks : trace[i].ok

-----------------------------------------------------------------------------
(* C11 *)

\* C11: a document update whose sender is not in the allowed set starts no
\* transport and no render operation, whatever the file name; when the
\* sender record is present the allowance check is the first thing done.
C11_DeniedDocumentTouchesNothing ==
    (Dispatch /\ DocumentUpdate /\ ~Authorized) =>
        /\ \A i \in DOMAIN trace : trace[i].ev \notin {"call", "render"}
        /\ update.from.has =>
              /\ trace # <<>>
              /\ trace[1].ev = "check"
              /\ ~trace[1].ok

C11_Witness ==
    /\ pc = "handled"
    /\ DocumentUpdate
    /\ ~Authorized
    /\ update.from.username = [has |-> TRUE, val |-> "Alice"]
    /\ update.document.FileName = [has |-> TRUE, val |-> <<"a", ".", "d", "2">>]
    /\ Checks = {1}

-----------------------------------------------------------------------------
(* C12 *)

\* neither a command, nor a text message, nor a document message
UnsupportedUpdate ==
    /\ update.kind \in {"message", "other"}
    /\ ~update.text.has
    /\ ~update.document.has

\* C12: an update that is no command, no text and no document gets exactly
\* one text reply, the fixed not-supported text, when its sender is
\* authorized, and no reply otherwise.
C12_UnsupportedAnswered ==
    (Dispatch /\ UnsupportedUpdate) =>
        IF Authorized
        THEN /\ Cardinality(CallsOf("sendMessage")) = 1
             /\ \A i \in CallsOf("sendMessage") :
                   trace[i].text = messageNotSupported
             /\ Replies = CallsOf("sendMessage")
        ELSE Replies = {}

-----------------------------------------------------------------------------
(* C13 *)

\* C13: a command without a registered handler gets, from an authorized
\* sender, exactly one text reply, "Not a supported command: " followed by
\* the command; from any other sender it gets no reply.
C13_UnknownCommandNotice ==
    (/\ Dispatch
     /\ update.kind = "command"
     /\ update.cmd \notin {commandStart, commandHelp, commandPrivacy}) =>
        IF Authorized
        THEN /\ Cardinality(CallsOf("sendMessage")) = 1
             /\ \A i \in CallsOf("sendMessage") :
                   /\ trace[i].text = <<"Not a supported command: ">> \o update.cmd
                   /\ trace[i].chatID = update.chatID
             /\ Replies = CallsOf("sendMessage")
        ELSE Replies = {}

C13_Witness ==
    /\ pc = "handled"
    /\ update.cmd = <<"/foo">>
    /\ Authorized
    /\ \E i \in CallsOf("sendMessage") :
          trace[i].text = <<"Not a supported command: ", "/foo">>

-----------------------------------------------------------------------------
(* C14 *)

\* C14: whenever the loop waits for an update, the sequences of allowance
\* check, render and replies that the message handler can produce for a
\* message are the same ones it can produce for that message with the
\* edited flag turned over (same sender, chat, message and content).
C14_EditedLikeNew ==
    pc = "polling" =>
        \A u \in MessageUpdates :
            ~u.edited =>
                messageHandler(conf, u)
                    = messageHandler(conf, [u EXCEPT !.edited = TRUE])

C14_Witness ==
    /\ pc = "handled"
    /\ update.kind = "message"
    /\ update.edited
    /\ Authorized
    /\ \E i \in CallsOf("sendDocument") : trace[i].ok


-----------------------------------------------------------------------------
(* Start-up.                                                              *)

\* the steps of a start-up that reached the polling loop
StartedUp ==
    <<Step("install", TRUE), Step("loadConfig", TRUE), Step("getMe", TRUE),
      Step("deleteWebhook", TRUE)>>

\* the process has ended
Ended == pc \in {"exited", "panicked", "crashed"}

\* the polling loop was started, or something only the loop does happened
Polled ==
    \/ pc \in {"polling", "handled", "crashed"}
    \/ handlers # {}
    \/ update # NoUpdate
    \/ trace # <<>>

\* C15: the polling loop is started only after the config loaded, getMe
\* answered ok and deleteWebhook answered ok, in that order; a start-up step
\* that fails is the last step the process takes: the process has ended, no
\* step was taken twice, no handler is registered and nothing was polled or
\* dispatched.
C15_PollingOnlyAfterStartup ==
    /\ Polled => startup = StartedUp
    /\ \A i \in DOMAIN startup : \A j \in DOMAIN startup :
          startup[i].step = startup[j].step => i = j
    /\ \A i \in DOMAIN startup :
          ~startup[i].ok =>
              /\ i = Len(startup)
              /\ pc \in {"exited", "panicked"}
              /\ ~Polled
              /\ interval = 0
              /\ ~ENABLED Next

\* getMe answered not-ok after the config had loaded
C15_Witness ==
    /\ Len(startup) = 3
    /\ startup[2] = Step("loadConfig", TRUE)
    /\ startup[3] = Step("getMe", FALSE)
    /\ pc = "exited"
    /\ client.created
    /\ client.token # ""

\* the bot was started: runBot was entered
BotStarted == pc = "loadConfig" \/ Len(startup) > 1

\* C17 as stated: with no argument the usage text is printed, the process
\* returns from main and no bot is started; with an argument the bot is run
\* on that argument.
C17_UsageOrBot ==
    pc # "start" =>
        IF Len(args) = 1
        THEN /\ printed = messageUsage(args[1])
             /\ pc = "exited"
             /\ ~BotStarted
             /\ ~client.created
        ELSE /\ BotStarted
             /\ confFilepath = args[2]
             /\ printed = <<>>

\* C17: once playwright.Install has succeeded, a program started with no
\* argument prints the usage text to standard output and returns from main
\* (status 0) without starting the bot, and a program started with an
\* argument runs the bot with the first argument as the config file path;
\* when the installation fails the program returns without printing the
\* usage text and without starting the bot, whatever its arguments.
C17_UsageOrBotOnceInstalled ==
    pc # "start" =>
        IF ~startup[1].ok
        THEN /\ printed = <<>>
             /\ pc = "exited"
             /\ ~BotStarted
             /\ ~client.created
             /\ confFilepath = ""
        ELSE IF Len(args) = 1
        THEN /\ printed = messageUsage(args[1])
             /\ pc = "exited"
             /\ ~BotStarted
             /\ ~client.created
             /\ confFilepath = ""
        ELSE /\ BotStarted
             /\ confFilepath = args[2]
             /\ printed = <<>>

\* a start without arguments printed the usage text and returned
C17_Witness ==
    /\ args = <<"telegram-d2-bot">>
    /\ startup = <<Step("install", TRUE)>>
    /\ printed = <<"Usage:\n\n\t$ ", "telegram-d2-bot", " [CONFIG_FILE_PATH]\n">>
    /\ pc = "exited"


-----------------------------------------------------------------------------
(* Transport errors.                                                      *)

TransportOps ==
    {"sendMessage", "sendDocument", "setMessageReaction", "getFile",
     "httpGet"}

\* the calls of the handler that the transport did not carry out
FailedCalls ==
    {i \in DOMAIN trace :
        /\ trace[i].ev = "call"
        /\ trace[i].op \in TransportOps
        /\ ~trace[i].ok}

\* the polling callback was handed an error instead of an update
PollFailed == pc # "polling" /\ update = NoUpdate /\ trace # <<>>

\* C16: after a send-text, send-document, set-reaction, get-file or
\* download that failed, and after a poll error, the only thing the handler
\* still does is write one log line; the process has not ended, the
\* handlers are still registered and the loop goes on to the next update.
C16_TransportErrorsAreLogged ==
    /\ \A i \in FailedCalls :
          /\ i + 1 = Len(trace)
          /\ trace[i + 1].ev = "log"
    /\ PollFailed => trace = <<LogEv("failed to poll updates")>>
    /\ (FailedCalls # {} \/ PollFailed) =>
          /\ pc = "handled"
          /\ ~Ended
          /\ handlers = Registered
          /\ ENABLED NextUpdate

\* the download of an authorized document failed
C16_Witness ==
    /\ pc = "handled"
    /\ DocumentUpdate
    /\ Authorized
    /\ Len(trace) = 4
    /\ trace[3].ev = "call"
    /\ trace[3].op = "httpGet"
    /\ ~trace[3].ok
    /\ trace[4].ev = "log"

-----------------------------------------------------------------------------
(* The rendering engine.                                                  *)

\* how many times stage name was run
RECURSIVE Count(_, _)
Count(run, name) ==
    IF run = <<>> THEN 0
    ELSE (IF Head(run) = name THEN 1 ELSE 0) + Count(Tail(run), name)

\* C18: in one call of renderDiagram Playwright is initialised at most
\* once, and only after the six earlier stages ran in order (each one runs
\* only when the one before returned no error); a Playwright that was
\* initialised is cleaned up exactly once, as the last thing the call does,
\* whether ConvertSVG succeeded or failed; and after any sequence of renders
\* no initialised Playwright is left without its Cleanup.
C18_EngineAcquiredThenReleased ==
    /\ playwrights = 0
    /\ \A i \in Renders :
          LET r == trace[i].r
              n == Len(r.stages)
          IN  /\ Count(r.stages, "initPlaywright") <= 1
              /\ r.acquired \in {0, 1}
              /\ r.released = Count(r.stages, "cleanup")
              /\ r.released = r.acquired
              /\ Count(r.stages, "initPlaywright") = 1 =>
                    /\ n > Len(Stages)
                    /\ SubSeq(r.stages, 1, Len(Stages)) = Stages
                    /\ r.stages[Len(Stages) + 1] = "initPlaywright"
              /\ r.acquired = 1 =>
                    /\ Count(r.stages, "initPlaywright") = 1
                    /\ r.stages[n] = "cleanup"
              /\ (r.acquired = 0 /\ Count(r.stages, "initPlaywright") = 1) =>
                    /\ r.stages[n] = "initPlaywright"
                    /\ r.err = StageErr("initPlaywright")

\* a render whose ConvertSVG failed after Playwright was initialised
C18_Witness ==
    /\ pc = "handled"
    /\ \E i \in Renders :
          /\ trace[i].r.acquired = 1
          /\ trace[i].r.released = 1
          /\ trace[i].r.err = StageErr("convertSVG")
          /\ trace[i].r.bs = NoBytes

-----------------------------------------------------------------------------
(* The timeout of a render.                                               *)

\* the call has returned and its deadline passed while a step was running
TimedOutInStep ==
    /\ call.returned
    /\ call.at > 0
    /\ call.expiredIn \notin {"none", "between"}

\* C19: when the deadline of a renderDiagram call passes while one of its
\* steps is running, whichever step it is, that step is the last one the
\* call runs (but for the release of the engine) and the call returns an
\* error.
C19_TimeoutCancelsEveryStep ==
    TimedOutInStep =>
        /\ call.err # NoErr
        /\ call.at <= Len(Steps)
        /\ Steps[call.at] = call.expiredIn

-----------------------------------------------------------------------------
(* The error of a failed render.                                          *)

\* the call has returned with the error of the step it stopped at
FailedInStep ==
    /\ call.returned
    /\ call.at \in 1..Len(Steps)
    /\ call.err # NoErr

\* err is message with something put before it that names the step
NamesStep(err, message, name) ==
    \E k \in 1..(Len(err) - 1) :
        /\ SubSeq(err, k + 1, Len(err)) = message
        /\ name \in Range(SubSeq(err, 1, k))

\* C21: the steps of renderDiagram run in the order of Steps, none runs
\* after one that failed, and the error the call returns is the message of
\* the failed step with the name of that step put before it.
C21_ErrorNamesFailedStage ==
    /\ call.at > 0 =>
          \E n \in 0..Len(Steps) :
              SubSeq(call.stages, 1, n) = SubSeq(Steps, 1, n)
              /\ Len(call.stages) \in {n, n + 1}
    /\ FailedInStep =>
          /\ call.stages[call.at] = Steps[call.at]
          /\ Count(call.stages, Steps[call.at]) = 1
          /\ \E message \in StepOutcomes(Steps[call.at], TRUE) \ {NoErr} :
                NamesStep(call.err, message, Steps[call.at])


-----------------------------------------------------------------------------
(* The reaction.                                                          *)

FailedReactions ==
    {i \in CallsOf("setMessageReaction") : ~trace[i].ok}

\* C22: a set-reaction that came back not-ok follows a document reply that
\* was sent successfully; after it the handler writes one log line and
\* nothing else: no error text is sent, nothing is rendered or sent a
\* second time, and the dispatch ends as a handled update.
C22_FailedReactionOnlyLogged ==
    \A i \in FailedReactions :
        /\ i > 1
        /\ trace[i - 1].ev = "call"
        /\ trace[i - 1].op = "sendDocument"
        /\ trace[i - 1].ok
        /\ Len(trace) = i + 1
        /\ trace[i + 1] = LogEv("failed to set reaction")
        /\ CallsOf("sendMessage") = {}
        /\ Cardinality(Renders) = 1
        /\ Cardinality(CallsOf("sendDocument")) = 1
        /\ Cardinality(CallsOf("setMessageReaction")) = 1
        /\ pc = "handled"
        /\ ENABLED NextUpdate

\* the reaction to a rendered text message failed
C22_Witness ==
    /\ pc = "handled"
    /\ TextUpdate
    /\ Authorized
    /\ FailedReactions # {}
    /\ \E i \in CallsOf("sendDocument") : trace[i].ok /\ trace[i].bytes \in PngBytes


-----------------------------------------------------------------------------
(* Fetching a document.                                                   *)

\* the document of the update has a name that ends in ".d2"
D2Document ==
    /\ DocumentUpdate
    /\ update.document.FileName.has
    /\ EndsInD2(update.document.FileName.val)

\* C23: for a .d2 document of an authorized sender there is a render if and
\* only if GetFile answered ok and getBytesFromURL returned no error, and
\* the source of that render is the content that was read; when either of
\* the two failed, one log line follows the failed call and there is no
\* render and no reply.
C23_RenderIffFetched ==
    (Dispatch /\ D2Document /\ Authorized) =>
        LET files == CallsOf("getFile")
            gets == CallsOf("httpGet")
            fetched == /\ \E i \in files : trace[i].ok
                       /\ \E i \in gets : trace[i].ok
        IN  /\ Cardinality(files) = 1
            /\ \A i \in files : trace[i].fileID = update.document.FileID
            /\ \A i \in gets :
                  /\ trace[i].fileID = update.document.FileID
                  /\ \E j \in files : j < i /\ trace[j].ok
            /\ (Renders # {}) <=> fetched
            /\ \A k \in Renders :
                  \E i \in gets :
                      /\ i < k
                      /\ trace[i].ok
                      /\ trace[k].r.src = trace[i].content
            /\ ~fetched =>
                  /\ Replies = {}
                  /\ trace[Len(trace)].ev = "log"
                  /\ trace[Len(trace) - 1].ev = "call"
                  /\ trace[Len(trace) - 1].op \in {"getFile", "httpGet"}
                  /\ ~trace[Len(trace) - 1].ok

\* a fetched .d2 file was rendered and sent
C23_Witness ==
    /\ pc = "handled"
    /\ D2Document
    /\ Authorized
    /\ \E i \in CallsOf("httpGet") :
          /\ trace[i].ok
          /\ trace[i].content = <<"a", " ", "-", ">", " ", "b">>
    /\ \E k \in Renders : trace[k].r.src = <<"a", " ", "-", ">", " ", "b">>
    /\ \E i \in CallsOf("sendDocument") : trace[i].ok


-----------------------------------------------------------------------------
(* Handler calls in flight at the same time.                              *)

\* the calls that frame d made so far
FrameCalls(d) ==
    {i \in DOMAIN frames[d].out : frames[d].out[i].ev = "call"}

\* C24: however the steps of handler calls for distinct updates
\* interleave, no two of them hold the same Playwright and every running
\* Playwright is held by exactly one of them; every call a handler makes
\* goes to the chat, and replies to the message, of its own update; and a
\* handler that has returned did for its update what handleMessage can do
\* for that update alone.  The config is not written.
C24_DispatchesIsolated ==
    /\ conf \in ConcurrentConfs
    /\ \A d \in Dispatches : \A e \in Dispatches :
          (d # e /\ frames[d].pw # 0) => frames[d].pw # frames[e].pw
    /\ handles = {frames[d].pw : d \in Dispatches} \ {0}
    /\ \A d \in Dispatches : \A i \in FrameCalls(d) :
          LET c == frames[d].out[i]
          IN  /\ c.chatID = frames[d].u.chatID
              /\ c.op \in {"sendDocument", "sendMessage"} =>
                    c.replyTo = frames[d].u.messageID
              /\ c.op = "setMessageReaction" =>
                    c.messageID = frames[d].u.messageID
    /\ \A d \in Dispatches :
          frames[d].at = "done" =>
              frames[d].out \in handleMessage(conf, frames[d].u)

\* two handler calls each hold a Playwright at the same time
C24_Witness ==
    /\ frames[1].at = "convert"
    /\ frames[2].at = "cleanup"
    /\ frames[1].pw # 0
    /\ frames[2].pw # 0
    /\ frames[1].u.chatID # frames[2].u.chatID
    /\ frames[1].u.from = frames[2].u.from


-----------------------------------------------------------------------------
(* Denials.                                                               *)

\* a handler that checks the sender ran and the sender is not authorized;
\* a message has a sender record (without one handleMessage and
\* handleDocument fault before they check anything)
DenialCase ==
    /\ Dispatch
    /\ ~Authorized
    /\ \/ (TextUpdate \/ DocumentUpdate) /\ update.from.has
       \/ update.kind = "other"
       \/ update.kind = "command" /\ update.cmd # commandPrivacy

\* what the handler of the update writes to the log on a denial
DenialLog ==
    IF TextUpdate THEN LogEv("message not allowed")
    ELSE IF DocumentUpdate THEN LogEv("document not allowed")
    ELSE LogEv("update not allowed")

\* C25: on a denial of a text, a document, an unsupported update, /start,
\* /help or an unknown command, the handler does nothing after the failed
\* allowance check when verbose logging is off, and writes exactly one log
\* line and nothing else when it is on.
C25_DenialLogsIffVerbose ==
    DenialCase =>
        trace = IF conf.IsVerbose
                THEN <<CheckEv(FALSE), DenialLog>>
                ELSE <<CheckEv(FALSE)>>

\* a denied /help with verbose logging on
C25_Witness ==
    /\ pc = "handled"
    /\ update.kind = "command"
    /\ update.cmd = commandHelp
    /\ ~Authorized
    /\ conf.IsVerbose
    /\ trace = <<CheckEv(FALSE), LogEv("update not allowed")>>


-----------------------------------------------------------------------------
(* The order of replyRendered.                                            *)

\* event i of the trace is a call of op
IsCall(i, op) ==
    /\ i \in DOMAIN trace
    /\ trace[i].ev = "call"
    /\ trace[i].op = op

\* C26: in every trace the typing indicator is followed at once by the
\* render, whether it succeeded or not, and every render follows a typing
\* indicator; a document is sent only right after a render without error;
\* a reaction is set only right after a document that was sent ok.  So no
\* reaction is set when the render or the send failed.
C26_TypingRenderSendReact ==
    /\ \A i \in CallsOf("sendChatAction") :
          (i + 1) \in Renders
    /\ \A k \in Renders :
          IsCall(k - 1, "sendChatAction")
    /\ \A i \in CallsOf("sendDocument") :
          /\ (i - 1) \in Renders
          /\ trace[i - 1].r.err = NoErr
    /\ \A i \in CallsOf("setMessageReaction") :
          /\ IsCall(i - 1, "sendDocument")
          /\ trace[i - 1].ok
          /\ (i - 2) \in Renders
          /\ trace[i - 2].r.err = NoErr
    /\ Cardinality(CallsOf("sendChatAction")) <= 1

\* the typing indicator failed and the whole chain still ran
C26_Witness ==
    /\ pc = "handled"
    /\ TextUpdate
    /\ Len(trace) = 5
    /\ IsCall(2, "sendChatAction")
    /\ ~trace[2].ok
    /\ 3 \in Renders
    /\ IsCall(4, "sendDocument")
    /\ trace[4].ok
    /\ IsCall(5, "setMessageReaction")
    /\ trace[5].ok


-----------------------------------------------------------------------------
(* A release that fails.                                                  *)

\* the renders whose error is the error of Cleanup
CleanupFailures == {k \in Renders : trace[k].r.err = CleanupErr}

\* C27: the error of Cleanup is the error of a render only when every
\* stage, the rasterization included, had returned no error (the PNG is
\* there), and a render whose rasterization failed keeps the error of the
\* rasterization; a render that ends with the error of Cleanup is answered
\* with the error text and no document is sent.
C27_CleanupErrorOnlyWhenNoneBefore ==
    /\ \A k \in Renders :
          LET r == trace[k].r
          IN  /\ r.err = CleanupErr =>
                    /\ r.bs \in PngBytes
                    /\ r.stages = Steps \o <<"cleanup">>
              /\ (r.bs = NoBytes /\ r.acquired = 1) =>
                    r.err = StageErr("convertSVG")
              /\ (r.bs = NoBytes /\ r.acquired = 0) =>
                    /\ r.err # NoErr
                    /\ r.err # CleanupErr
    /\ \A k \in CleanupFailures :
          /\ CallsOf("sendDocument") = {}
          /\ CallsOf("setMessageReaction") = {}
          /\ trace[k + 1] = LogEv("failed to render message")
          /\ IsCall(k + 2, "sendMessage")
          /\ trace[k + 2].text = <<"Failed to render message: ">> \o CleanupErr
          /\ trace[k + 2].chatID = update.chatID
          /\ trace[k + 2].replyTo = update.messageID

\* the image was rendered, Cleanup failed, the error text was sent
C27_Witness ==
    /\ pc = "handled"
    /\ TextUpdate
    /\ \E k \in CleanupFailures :
          /\ trace[k].r.bs \in PngBytes
          /\ IsCall(k + 2, "sendMessage")
          /\ trace[k + 2].ok


-----------------------------------------------------------------------------
(* A document without a name.                                             *)

\* the text replies that reject a file by its name
Rejections ==
    {i \in CallsOf("sendMessage") :
        /\ trace[i].text # <<>>
        /\ trace[i].text[Len(trace[i].text)]
              = "' does not seem to be a .d2 file."}

\* C28: for a document of an authorized sender that carries no file name
\* the handler stops after the allowance check: no file is fetched,
\* nothing is rendered and nothing is sent; and no authorized document
\* gets both a rejection and a render, or more than one of either.
C28_NamelessDocumentDropped ==
    (Dispatch /\ DocumentUpdate /\ Authorized) =>
        /\ ~update.document.FileName.has => trace = <<CheckEv(TRUE)>>
        /\ Cardinality(Rejections) + Cardinality(Renders) <= 1
        /\ Rejections # {} =>
              /\ update.document.FileName.has
              /\ ~EndsInD2(update.document.FileName.val)
        /\ Renders # {} => D2Document

\* an authorized document without a name was handled
C28_Witness ==
    /\ pc = "handled"
    /\ DocumentUpdate
    /\ Authorized
    /\ ~update.document.FileName.has
    /\ trace = <<CheckEv(TRUE)>>


-----------------------------------------------------------------------------
(* A message without text and document.                                   *)

\* the message handler was called with a message that has neither
BareMessage ==
    /\ Dispatch
    /\ update.kind = "message"
    /\ ~update.text.has
    /\ ~update.document.has

\* C29: the message handler does nothing at all for a message with neither
\* text nor document, whoever sent it: no allowance check, no render, no
\* call, no log; and the not-supported text is sent only for updates that
\* came through the polling callback.
C29_BareMessageIgnored ==
    /\ BareMessage => (trace = <<>> /\ pc = "handled")
    /\ \A i \in CallsOf("sendMessage") :
          trace[i].text = messageNotSupported => update.kind = "other"
    /\ \A i \in DOMAIN trace :
          (trace[i].ev = "log"
              /\ trace[i].what \in {"no usabale message", "update not allowed"})
          => update.kind \in {"other", "command"}

\* a photo-only message of an authorized sender was handled
C29_Witness ==
    /\ BareMessage
    /\ Authorized
    /\ trace = <<>>


-----------------------------------------------------------------------------
(* A message without a sender record.                                     *)

\* a text or document message whose From is absent was given to its handler
SenderlessMessage ==
    /\ Dispatch
    /\ TextUpdate \/ DocumentUpdate
    /\ ~update.from.has

\* C30: a text or document message without a sender record is denied like
\* one of an anonymous sender: the handler returns without a fault, the
\* process lives on, and nothing is rendered or sent.
C30_SenderlessDenied ==
    SenderlessMessage =>
        /\ \A i \in DOMAIN trace : trace[i].ev # "panic"
        /\ pc = "handled"
        /\ Renders = {}
        /\ Replies = {}

====
